---- MODULE Spec2Model ----
(***************************************************************************)
(* Model of components/builder-protocol/src/jobsrv.rs: the state codecs    *)
(* (Display / FromStr / Serialize of JobState, JobGroupState and           *)
(* JobGroupProjectState), the routing keys, the JobLog sanitizer, the Job  *)
(* projection and the entity conversions.                                  *)
(*                                                                         *)
(* Strings whose characters the code inspects or builds are sequences of   *)
(* Unicode code points (Rust `char`s); strings the code only copies are    *)
(* TLA+ strings.                                                           *)
(***************************************************************************)
EXTENDS Integers, Sequences, FiniteSets, TLC

VARIABLES
    cfam, cval, ctext, cflips, cedits, cres, cser,   \* state codec
    rmsg, rkey,                                      \* routing resolver
    log, prev, nstrip, wire,                         \* job log and its sanitizer
    jspec, job, jwire,                               \* JobSpec -> Job -> projection
    opkg, gpkg, cpkg,                                \* graph package conversions
    pent, pwire                                      \* an entity and its projection

codecVars == <<cfam, cval, ctext, cflips, cedits, cres, cser>>
routeVars == <<rmsg, rkey>>
logVars == <<log, prev, nstrip, wire>>
jobVars == <<jspec, job, jwire>>
pkgVars == <<opkg, gpkg, cpkg>>
projVars == <<pent, pwire>>
vars == <<codecVars, routeVars, logVars, jobVars, pkgVars, projVars>>
nonCodecVars == <<routeVars, logVars, jobVars, pkgVars, projVars>>
nonRouteVars == <<codecVars, logVars, jobVars, pkgVars, projVars>>
nonLogVars == <<codecVars, routeVars, jobVars, pkgVars, projVars>>
nonJobVars == <<codecVars, routeVars, logVars, pkgVars, projVars>>
nonPkgVars == <<codecVars, routeVars, logVars, jobVars, projVars>>
nonProjVars == <<codecVars, routeVars, logVars, jobVars, pkgVars>>

\* The value of a variable that holds nothing (yet).
None == [tag |-> "None"]

(***************************************************************************)
(* Bounds of the model.                                                    *)
(***************************************************************************)
\* Case flips of single characters applied to a rendered token.
MaxFlips == 2
\* Other edits (append, drop, substitute) applied to a rendered token.
MaxEdits == 1
\* Characters of a log line drawn from LogAlphabet.
MaxLineLen == 4
\* Lines of a log chunk made of the sample lines.
MaxLines == 2
\* Calls of strip_ansi on one log chunk.
MaxStrips == 2
\* Dependencies of an origin package.
MaxDeps == 2

(***************************************************************************)
(* Characters.                                                             *)
(***************************************************************************)
IsAsciiUpper(c) == c \in 65..90
IsAsciiLower(c) == c \in 97..122

\* char::to_lowercase, on ASCII and on U+212A KELVIN SIGN (8490), a non-ASCII
\* character whose lowercase is ASCII 'k' (107). These are the characters the
\* model feeds it; each of them lowercases to exactly one character.
ToLowercaseChar(c) ==
    IF IsAsciiUpper(c) THEN c + 32
    ELSE IF c = 8490 THEN 107
    ELSE c

\* str::to_lowercase
ToLowercase(s) == [i \in 1..Len(s) |-> ToLowercaseChar(s[i])]

(***************************************************************************)
(* The three state families and the integer each variant is cast to by     *)
(* `*self as u64` (the discriminants of the generated message::jobsrv      *)
(* enums, which are not part of this file).                                *)
(***************************************************************************)
JobStates == {"Pending", "Processing", "Complete", "Rejected", "Failed",
              "Dispatched", "CancelPending", "CancelProcessing", "CancelComplete"}
JobGroupStates == {"GroupPending", "GroupDispatching", "GroupComplete",
                   "GroupFailed", "GroupQueued", "GroupCanceled"}
JobGroupProjectStates == {"NotStarted", "InProgress", "Success", "Failure",
                          "Skipped", "Canceled"}

Families == {"JobState", "JobGroupState", "JobGroupProjectState"}

ValuesOf(fam) ==
    CASE fam = "JobState" -> JobStates
      [] fam = "JobGroupState" -> JobGroupStates
      [] fam = "JobGroupProjectState" -> JobGroupProjectStates

JobStateAsU64(v) ==
    CASE v = "Pending" -> 0
      [] v = "Processing" -> 1
      [] v = "Complete" -> 2
      [] v = "Rejected" -> 3
      [] v = "Failed" -> 4
      [] v = "Dispatched" -> 5
      [] v = "CancelPending" -> 6
      [] v = "CancelProcessing" -> 7
      [] v = "CancelComplete" -> 8

JobGroupStateAsU64(v) ==
    CASE v = "GroupPending" -> 0
      [] v = "GroupDispatching" -> 1
      [] v = "GroupComplete" -> 2
      [] v = "GroupFailed" -> 3
      [] v = "GroupQueued" -> 4
      [] v = "GroupCanceled" -> 5

JobGroupProjectStateAsU64(v) ==
    CASE v = "NotStarted" -> 0
      [] v = "InProgress" -> 1
      [] v = "Success" -> 2
      [] v = "Failure" -> 3
      [] v = "Skipped" -> 4
      [] v = "Canceled" -> 5

(***************************************************************************)
(* impl Default for JobState                                               *)
(***************************************************************************)
JobStateDefault == "Pending"

(***************************************************************************)
(* impl fmt::Display for JobState / JobGroupState / JobGroupProjectState   *)
(***************************************************************************)
DisplayJobState(v) ==
    CASE v = "Dispatched" -> <<68, 105, 115, 112, 97, 116, 99, 104, 101, 100>>             \* "Dispatched"
      [] v = "Pending" -> <<80, 101, 110, 100, 105, 110, 103>>                            \* "Pending"
      [] v = "Processing" -> <<80, 114, 111, 99, 101, 115, 115, 105, 110, 103>>           \* "Processing"
      [] v = "Complete" -> <<67, 111, 109, 112, 108, 101, 116, 101>>                      \* "Complete"
      [] v = "Rejected" -> <<82, 101, 106, 101, 99, 116, 101, 100>>                       \* "Rejected"
      [] v = "Failed" -> <<70, 97, 105, 108, 101, 100>>                                   \* "Failed"
      [] v = "CancelPending" ->
            <<67, 97, 110, 99, 101, 108, 80, 101, 110, 100, 105, 110, 103>>               \* "CancelPending"
      [] v = "CancelProcessing" ->
            <<67, 97, 110, 99, 101, 108, 80, 114, 111, 99, 101, 115, 115, 105, 110, 103>> \* "CancelProcessing"
      [] v = "CancelComplete" ->
            <<67, 97, 110, 99, 101, 108, 67, 111, 109, 112, 108, 101, 116, 101>>          \* "CancelComplete"

DisplayJobGroupState(v) ==
    CASE v = "GroupDispatching" -> <<68, 105, 115, 112, 97, 116, 99, 104, 105, 110, 103>> \* "Dispatching"
      [] v = "GroupPending" -> <<80, 101, 110, 100, 105, 110, 103>>                       \* "Pending"
      [] v = "GroupComplete" -> <<67, 111, 109, 112, 108, 101, 116, 101>>                 \* "Complete"
      [] v = "GroupFailed" -> <<70, 97, 105, 108, 101, 100>>                              \* "Failed"
      [] v = "GroupQueued" -> <<81, 117, 101, 117, 101, 100>>                             \* "Queued"
      [] v = "GroupCanceled" -> <<67, 97, 110, 99, 101, 108, 101, 100>>                   \* "Canceled"

DisplayJobGroupProjectState(v) ==
    CASE v = "NotStarted" -> <<78, 111, 116, 83, 116, 97, 114, 116, 101, 100>>            \* "NotStarted"
      [] v = "InProgress" -> <<73, 110, 80, 114, 111, 103, 114, 101, 115, 115>>           \* "InProgress"
      [] v = "Success" -> <<83, 117, 99, 99, 101, 115, 115>>                              \* "Success"
      [] v = "Failure" -> <<70, 97, 105, 108, 117, 114, 101>>                             \* "Failure"
      [] v = "Skipped" -> <<83, 107, 105, 112, 112, 101, 100>>                            \* "Skipped"
      [] v = "Canceled" -> <<67, 97, 110, 99, 101, 108, 101, 100>>                        \* "Canceled"

\* `state.to_string()` / `format!("{}", state)` of a value of family fam.
Display(fam, v) ==
    CASE fam = "JobState" -> DisplayJobState(v)
      [] fam = "JobGroupState" -> DisplayJobGroupState(v)
      [] fam = "JobGroupProjectState" -> DisplayJobGroupProjectState(v)

(***************************************************************************)
(* impl Serialize for JobState / JobGroupState / JobGroupProjectState:     *)
(* a match on the integer of the value; the `_` arm panics.                *)
(***************************************************************************)
Str(s) == [tag |-> "Str", str |-> s]
Panic == [tag |-> "Panic", str |-> <<>>]

SerializeJobStateU64(n) ==
    CASE n = 0 -> Str(<<80, 101, 110, 100, 105, 110, 103>>)                               \* "Pending"
      [] n = 1 -> Str(<<80, 114, 111, 99, 101, 115, 115, 105, 110, 103>>)                 \* "Processing"
      [] n = 2 -> Str(<<67, 111, 109, 112, 108, 101, 116, 101>>)                          \* "Complete"
      [] n = 3 -> Str(<<82, 101, 106, 101, 99, 116, 101, 100>>)                           \* "Rejected"
      [] n = 4 -> Str(<<70, 97, 105, 108, 101, 100>>)                                     \* "Failed"
      [] n = 5 -> Str(<<68, 105, 115, 112, 97, 116, 99, 104, 101, 100>>)                  \* "Dispatched"
      [] n = 6 -> Str(<<67, 97, 110, 99, 101, 108, 80, 101, 110, 100, 105, 110, 103>>)    \* "CancelPending"
      [] n = 7 ->
            Str(<<67, 97, 110, 99, 101, 108, 80, 114, 111, 99, 101, 115, 115, 105, 110, 103>>) \* "CancelProcessing"
      [] n = 8 ->
            Str(<<67, 97, 110, 99, 101, 108, 67, 111, 109, 112, 108, 101, 116, 101>>)     \* "CancelComplete"
      [] OTHER -> Panic

\* A faulty variant: the table follows the order of Display's arms.
SerializeJobGroupStateDisplayOrder(n) ==
    CASE n = 0 -> Str(<<68, 105, 115, 112, 97, 116, 99, 104, 105, 110, 103>>)             \* "Dispatching"
      [] n = 1 -> Str(<<80, 101, 110, 100, 105, 110, 103>>)                               \* "Pending"
      [] n = 2 -> Str(<<67, 111, 109, 112, 108, 101, 116, 101>>)                          \* "Complete"
      [] n = 3 -> Str(<<70, 97, 105, 108, 101, 100>>)                                     \* "Failed"
      [] n = 4 -> Str(<<81, 117, 101, 117, 101, 100>>)                                    \* "Queued"
      [] n = 5 -> Str(<<67, 97, 110, 99, 101, 108, 101, 100>>)                            \* "Canceled"
      [] OTHER -> Panic

SerializeJobGroupStateU64(n) ==
    CASE n = 0 -> Str(<<80, 101, 110, 100, 105, 110, 103>>)                               \* "Pending"
      [] n = 1 -> Str(<<68, 105, 115, 112, 97, 116, 99, 104, 105, 110, 103>>)             \* "Dispatching"
      [] n = 2 -> Str(<<67, 111, 109, 112, 108, 101, 116, 101>>)                          \* "Complete"
      [] n = 3 -> Str(<<70, 97, 105, 108, 101, 100>>)                                     \* "Failed"
      [] n = 4 -> Str(<<81, 117, 101, 117, 101, 100>>)                                    \* "Queued"
      [] n = 5 -> Str(<<67, 97, 110, 99, 101, 108, 101, 100>>)                            \* "Canceled"
      [] OTHER -> Panic

SerializeJobGroupProjectStateU64(n) ==
    CASE n = 0 -> Str(<<78, 111, 116, 83, 116, 97, 114, 116, 101, 100>>)                  \* "NotStarted"
      [] n = 1 -> Str(<<73, 110, 80, 114, 111, 103, 114, 101, 115, 115>>)                 \* "InProgress"
      [] n = 2 -> Str(<<83, 117, 99, 99, 101, 115, 115>>)                                 \* "Success"
      [] n = 3 -> Str(<<70, 97, 105, 108, 117, 114, 101>>)                                \* "Failure"
      [] n = 4 -> Str(<<83, 107, 105, 112, 112, 101, 100>>)                               \* "Skipped"
      [] n = 5 -> Str(<<67, 97, 110, 99, 101, 108, 101, 100>>)                            \* "Canceled"
      [] OTHER -> Panic

SerializeJobState(v) == SerializeJobStateU64(JobStateAsU64(v))
SerializeJobGroupState(v) == SerializeJobGroupStateU64(JobGroupStateAsU64(v))
SerializeJobGroupProjectState(v) ==
    SerializeJobGroupProjectStateU64(JobGroupProjectStateAsU64(v))

\* `state.serialize(serializer)` of a value of family fam.
SerializeState(fam, v) ==
    CASE fam = "JobState" -> SerializeJobState(v)
      [] fam = "JobGroupState" -> SerializeJobGroupState(v)
      [] fam = "JobGroupProjectState" -> SerializeJobGroupProjectState(v)

(***************************************************************************)
(* impl FromStr for JobState / JobGroupState / JobGroupProjectState:       *)
(* a match of value.to_lowercase() against the lower-case tokens; the `_`  *)
(* arm returns the family's error with value.to_string().                  *)
(***************************************************************************)
Ok(v) == [tag |-> "Ok", val |-> v, arg |-> <<>>]
Err(kind, s) == [tag |-> "Err", val |-> kind, arg |-> s]

JobStateFromStr(value) ==
    LET l == ToLowercase(value) IN
    CASE l = <<112, 101, 110, 100, 105, 110, 103>> -> Ok("Pending")                      \* "pending"
      [] l = <<112, 114, 111, 99, 101, 115, 115, 105, 110, 103>> -> Ok("Processing")     \* "processing"
      [] l = <<99, 111, 109, 112, 108, 101, 116, 101>> -> Ok("Complete")                 \* "complete"
      [] l = <<114, 101, 106, 101, 99, 116, 101, 100>> -> Ok("Rejected")                 \* "rejected"
      [] l = <<102, 97, 105, 108, 101, 100>> -> Ok("Failed")                             \* "failed"
      [] l = <<100, 105, 115, 112, 97, 116, 99, 104, 101, 100>> -> Ok("Dispatched")      \* "dispatched"
      [] l = <<99, 97, 110, 99, 101, 108, 112, 101, 110, 100, 105, 110, 103>> ->
            Ok("CancelPending")                                                            \* "cancelpending"
      [] l = <<99, 97, 110, 99, 101, 108, 112, 114, 111, 99, 101, 115, 115, 105, 110, 103>> ->
            Ok("CancelProcessing")                                                         \* "cancelprocessing"
      [] l = <<99, 97, 110, 99, 101, 108, 99, 111, 109, 112, 108, 101, 116, 101>> ->
            Ok("CancelComplete")                                                           \* "cancelcomplete"
      [] OTHER -> Err("BadJobState", value)

\* A faulty variant: the match is on the value as given, not lower-cased.
JobGroupStateFromStrCaseSensitive(value) ==
    LET l == value IN
    CASE l = <<100, 105, 115, 112, 97, 116, 99, 104, 105, 110, 103>> -> Ok("GroupDispatching")
      [] l = <<112, 101, 110, 100, 105, 110, 103>> -> Ok("GroupPending")
      [] l = <<99, 111, 109, 112, 108, 101, 116, 101>> -> Ok("GroupComplete")
      [] l = <<102, 97, 105, 108, 101, 100>> -> Ok("GroupFailed")
      [] l = <<113, 117, 101, 117, 101, 100>> -> Ok("GroupQueued")
      [] l = <<99, 97, 110, 99, 101, 108, 101, 100>> -> Ok("GroupCanceled")
      [] OTHER -> Err("BadJobGroupState", value)

JobGroupStateFromStr(value) ==
    LET l == ToLowercase(value) IN
    CASE l = <<100, 105, 115, 112, 97, 116, 99, 104, 105, 110, 103>> -> Ok("GroupDispatching") \* "dispatching"
      [] l = <<112, 101, 110, 100, 105, 110, 103>> -> Ok("GroupPending")                 \* "pending"
      [] l = <<99, 111, 109, 112, 108, 101, 116, 101>> -> Ok("GroupComplete")            \* "complete"
      [] l = <<102, 97, 105, 108, 101, 100>> -> Ok("GroupFailed")                        \* "failed"
      [] l = <<113, 117, 101, 117, 101, 100>> -> Ok("GroupQueued")                       \* "queued"
      [] l = <<99, 97, 110, 99, 101, 108, 101, 100>> -> Ok("GroupCanceled")              \* "canceled"
      [] OTHER -> Err("BadJobGroupState", value)

\* A faulty variant: the error carries the lower-cased string.
JobGroupProjectStateFromStrLowered(value) ==
    LET l == ToLowercase(value) IN
    CASE l = <<110, 111, 116, 115, 116, 97, 114, 116, 101, 100>> -> Ok("NotStarted")
      [] l = <<105, 110, 112, 114, 111, 103, 114, 101, 115, 115>> -> Ok("InProgress")
      [] l = <<115, 117, 99, 99, 101, 115, 115>> -> Ok("Success")
      [] l = <<102, 97, 105, 108, 117, 114, 101>> -> Ok("Failure")
      [] l = <<115, 107, 105, 112, 112, 101, 100>> -> Ok("Skipped")
      [] l = <<99, 97, 110, 99, 101, 108, 101, 100>> -> Ok("Canceled")
      [] OTHER -> Err("BadJobGroupProjectState", l)

JobGroupProjectStateFromStr(value) ==
    LET l == ToLowercase(value) IN
    CASE l = <<110, 111, 116, 115, 116, 97, 114, 116, 101, 100>> -> Ok("NotStarted")     \* "notstarted"
      [] l = <<105, 110, 112, 114, 111, 103, 114, 101, 115, 115>> -> Ok("InProgress")    \* "inprogress"
      [] l = <<115, 117, 99, 99, 101, 115, 115>> -> Ok("Success")                        \* "success"
      [] l = <<102, 97, 105, 108, 117, 114, 101>> -> Ok("Failure")                       \* "failure"
      [] l = <<115, 107, 105, 112, 112, 101, 100>> -> Ok("Skipped")                      \* "skipped"
      [] l = <<99, 97, 110, 99, 101, 108, 101, 100>> -> Ok("Canceled")                   \* "canceled"
      [] OTHER -> Err("BadJobGroupProjectState", value)

\* `text.parse::<F>()` for the family fam.
FromStr(fam, value) ==
    CASE fam = "JobState" -> JobStateFromStr(value)
      [] fam = "JobGroupState" -> JobGroupStateFromStr(value)
      [] fam = "JobGroupProjectState" -> JobGroupProjectStateFromStr(value)

(***************************************************************************)
(* The state codec as a state machine: a caller holds a state value of one *)
(* family, renders it (Display, Serialize), changes the case of the text   *)
(* or edits it, and parses the text as a state of any family.              *)
(***************************************************************************)
\* Characters a caller puts into a text: 's', '-' and the Kelvin sign.
EditChars == {115, 45, 8490}

FlipCaseChar(c) ==
    IF IsAsciiUpper(c) THEN c + 32
    ELSE IF IsAsciiLower(c) THEN c - 32
    ELSE c

\* str::to_uppercase on ASCII text.
ToUppercase(s) == [i \in 1..Len(s) |-> IF IsAsciiLower(s[i]) THEN s[i] - 32 ELSE s[i]]

CodecIdle ==
    /\ cfam = "JobState" /\ cval = JobStateDefault /\ ctext = <<>>
    /\ cflips = 0 /\ cedits = 0 /\ cres = None /\ cser = None

CodecInit ==
    /\ cfam \in Families
    /\ cval \in ValuesOf(cfam)
    /\ ctext = <<>>
    /\ cflips = 0 /\ cedits = 0
    /\ cres = None /\ cser = None

\* text = value.to_string()
DoDisplay ==
    /\ ctext' = Display(cfam, cval)
    /\ cflips' = 0 /\ cedits' = 0 /\ cres' = None
    /\ UNCHANGED <<cfam, cval, cser, nonCodecVars>>

\* value.serialize(..)
DoSerialize ==
    /\ cser' = SerializeState(cfam, cval)
    /\ UNCHANGED <<cfam, cval, ctext, cflips, cedits, cres, nonCodecVars>>

\* The caller changes the case of one letter of the text.
FlipCase ==
    /\ cedits = 0 /\ cflips < MaxFlips
    /\ \E i \in 1..Len(ctext) :
          /\ FlipCaseChar(ctext[i]) # ctext[i]
          /\ ctext' = [ctext EXCEPT ![i] = FlipCaseChar(ctext[i])]
    /\ cflips' = cflips + 1
    /\ cres' = None /\ cser' = None
    /\ UNCHANGED <<cfam, cval, cedits, nonCodecVars>>

\* The caller upper-cases or lower-cases the whole text.
ChangeCase ==
    /\ cedits = 0 /\ cflips = 0 /\ ctext # <<>>
    /\ ctext' \in {ToUppercase(ctext), ToLowercase(ctext)}
    /\ cflips' = MaxFlips
    /\ cres' = None /\ cser' = None
    /\ UNCHANGED <<cfam, cval, cedits, nonCodecVars>>

\* The caller appends a character, drops the last one or replaces one.
EditText ==
    /\ cflips = 0 /\ cedits < MaxEdits
    /\ \/ \E c \in EditChars : ctext' = Append(ctext, c)
       \/ ctext # <<>> /\ ctext' = SubSeq(ctext, 1, Len(ctext) - 1)
       \/ \E i \in 1..Len(ctext), c \in EditChars :
             ctext[i] # c /\ ctext' = [ctext EXCEPT ![i] = c]
    /\ cedits' = cedits + 1
    /\ cres' = None /\ cser' = None
    /\ UNCHANGED <<cfam, cval, cflips, nonCodecVars>>

\* res = text.parse::<fam>()
DoFromStr ==
    /\ \E fam \in Families : cres' = [fam |-> fam, res |-> FromStr(fam, ctext)]
    /\ UNCHANGED <<cfam, cval, ctext, cflips, cedits, cser, nonCodecVars>>

RouteIdle == rmsg = None /\ rkey = None
LogIdle == log = None /\ prev = None /\ nstrip = 0 /\ wire = None
JobIdle == jspec = None /\ job = None /\ jwire = None
PkgIdle == opkg = None /\ gpkg = None /\ cpkg = None
ProjIdle == pent = None /\ pwire = None

InitCodec == CodecInit /\ RouteIdle /\ LogIdle /\ JobIdle /\ PkgIdle /\ ProjIdle

NextCodec ==
    \/ DoDisplay
    \/ DoSerialize
    \/ FlipCase
    \/ ChangeCase
    \/ EditText
    \/ DoFromStr

SpecCodec == InitCodec /\ [][NextCodec]_vars

(***************************************************************************)
(* Properties of the state codec.                                          *)
(***************************************************************************)
\* a and b are the same ASCII letter in either case, or the same character.
SameAsciiLetter(a, b) ==
    \/ a = b
    \/ IsAsciiUpper(a) /\ b = a + 32
    \/ IsAsciiUpper(b) /\ a = b + 32

\* s is an upper/lower-case variant of the token t.
IsCaseVariant(s, t) ==
    /\ Len(s) = Len(t)
    /\ \A i \in 1..Len(t) : SameAsciiLetter(s[i], t[i])

\* a and b are equal under Unicode simple case folding, which folds the
\* Kelvin sign to 'k'.
FoldsTogether(a, b) ==
    \/ SameAsciiLetter(a, b)
    \/ a = 8490 /\ b \in {75, 107}
    \/ b = 8490 /\ a \in {75, 107}

\* s matches the token t case-insensitively.
MatchesIgnoringCase(s, t) ==
    /\ Len(s) = Len(t)
    /\ \A i \in 1..Len(t) : FoldsTogether(s[i], t[i])

BadStateError(fam) ==
    CASE fam = "JobState" -> "BadJobState"
      [] fam = "JobGroupState" -> "BadJobGroupState"
      [] fam = "JobGroupProjectState" -> "BadJobGroupProjectState"

\* C1: for every value of each of the three families, from_str of the token
\* Display renders for the value, and of every upper/lower-case variant of
\* that token, returns the value.
C1_RoundTrip ==
    cres # None =>
        \A v \in ValuesOf(cres.fam) :
            IsCaseVariant(ctext, Display(cres.fam, v)) => cres.res = Ok(v)

\* C1 witness: the token Display rendered for the held value had the case of
\* two letters changed and was parsed back as the value's own family.
C1_Witness ==
    /\ cres # None /\ cres.fam = cfam
    /\ cedits = 0 /\ cflips = 2
    /\ ctext # Display(cfam, cval)
    /\ cres.res.tag = "Ok"

\* C2: from_str of a string matching none of the family's tokens
\* case-insensitively returns the family's own bad-state error carrying the
\* string exactly as passed, and no state value.
C2_BadState ==
    cres # None =>
        ((\A v \in ValuesOf(cres.fam) : ~MatchesIgnoringCase(ctext, Display(cres.fam, v)))
            => cres.res = Err(BadStateError(cres.fam), ctext))

\* C2 witness: a text with an upper-case letter that matches no token of
\* JobGroupProjectState was parsed as a JobGroupProjectState.
C2_Witness ==
    /\ cres # None /\ cres.fam = "JobGroupProjectState"
    /\ cres.res.tag = "Err"
    /\ ToLowercase(ctext) # ctext

\* C3: for every valid value of the three families the token Serialize emits
\* is the token Display renders.
C3_SerializeIsDisplay ==
    cser # None => cser = Str(Display(cfam, cval))

\* C3 witness: the group state with integer 1 was both rendered and serialized.
C3_Witness ==
    /\ cfam = "JobGroupState" /\ JobGroupStateAsU64(cval) = 1
    /\ cser # None /\ cser.tag = "Str"
    /\ ctext = Display(cfam, cval)

(***************************************************************************)
(* Routing resolver: impl Routable for the request messages.               *)
(* A message is a record of the fields the generated accessors read; a     *)
(* field the message kind does not have holds the protobuf default.        *)
(***************************************************************************)
\* u64::to_string: the decimal digits of n, most significant first.
RECURSIVE U64ToString(_)
U64ToString(n) ==
    IF n < 10 THEN <<48 + n>>
    ELSE U64ToString(n \div 10) \o <<48 + (n % 10)>>

\* format!("{}/{}", a, b)
FormatSlash(a, b) == a \o <<47>> \o b

Some(k) == [tag |-> "Some", key |-> k]
InstaId(n) == [tag |-> "InstaId", id |-> n, str |-> <<>>]
StringKey(s) == [tag |-> "String", id |-> 0, str |-> s]

RouteKeyJobSpec(m) == Some(InstaId(m.owner_id))
RouteKeyJobLogGet(m) == Some(InstaId(m.id))
RouteKeyJobGet(m) == Some(InstaId(m.id))
RouteKeyJob(m) == Some(InstaId(m.id))
RouteKeyProjectJobsGet(m) == Some(StringKey(m.name))
RouteKeyJobGroupSpec(m) == Some(StringKey(FormatSlash(m.origin, m.package)))
RouteKeyJobGroupGet(m) == Some(StringKey(U64ToString(m.group_id)))
RouteKeyJobGroupAbort(m) == Some(StringKey(U64ToString(m.group_id)))
RouteKeyJobGroupCancel(m) == Some(StringKey(U64ToString(m.group_id)))
RouteKeyJobGraphPackageCreate(m) == Some(StringKey(m.ident))
RouteKeyJobGraphPackagePreCreate(m) == Some(StringKey(m.ident))
RouteKeyJobGroupOriginGet(m) == Some(StringKey(m.origin))
RouteKeyJobGraphPackageStatsGet(m) == Some(StringKey(m.origin))
\* A faulty variant: the key of the stats request, the origin alone.
RouteKeyReverseDependenciesOriginOnly(m) == Some(StringKey(m.origin))
RouteKeyJobGraphPackageReverseDependenciesGet(m) ==
    Some(StringKey(FormatSlash(m.origin, m.name)))

\* impl Pageable for ProjectJobsGet
GetRangeProjectJobsGet(m) == <<m.start, m.stop>>

\* Field values of the messages the model routes.
IdSamples == {0, 9, 10, 42, 1005, 2147483647}
StrSamples == {<<>>,
               <<99, 111, 114, 101>>,                       \* "core"
               <<104, 97, 98>>,                             \* "hab"
               <<99, 111, 114, 101, 47, 104, 97, 98>>}      \* "core/hab"

\* A message with every field at its protobuf default.
DefaultMsg(kind) ==
    [kind |-> kind, id |-> 0, owner_id |-> 0, group_id |-> 0, name |-> <<>>,
     origin |-> <<>>, package |-> <<>>, ident |-> <<>>, has_channel |-> FALSE,
     start |-> 0, stop |-> 0]

RouteJobSpec ==
    /\ \E o \in IdSamples, c \in BOOLEAN :
          rmsg' = [DefaultMsg("JobSpec") EXCEPT !.owner_id = o, !.has_channel = c]
    /\ rkey' = RouteKeyJobSpec(rmsg')
    /\ UNCHANGED nonRouteVars

RouteJobLogGet ==
    /\ \E i \in IdSamples : rmsg' = [DefaultMsg("JobLogGet") EXCEPT !.id = i]
    /\ rkey' = RouteKeyJobLogGet(rmsg')
    /\ UNCHANGED nonRouteVars

RouteJobGet ==
    /\ \E i \in IdSamples : rmsg' = [DefaultMsg("JobGet") EXCEPT !.id = i]
    /\ rkey' = RouteKeyJobGet(rmsg')
    /\ UNCHANGED nonRouteVars

RouteJob ==
    /\ \E i \in IdSamples, o \in {0, 42}, c \in BOOLEAN :
          rmsg' = [DefaultMsg("Job") EXCEPT !.id = i, !.owner_id = o, !.has_channel = c]
    /\ rkey' = RouteKeyJob(rmsg')
    /\ UNCHANGED nonRouteVars

RouteProjectJobsGet ==
    /\ \E n \in StrSamples, a \in {0, 10}, b \in {0, 9} :
          rmsg' = [DefaultMsg("ProjectJobsGet") EXCEPT !.name = n, !.start = a, !.stop = b]
    /\ rkey' = RouteKeyProjectJobsGet(rmsg')
    /\ UNCHANGED nonRouteVars

RouteJobGroupSpec ==
    /\ \E o \in StrSamples, q \in StrSamples :
          rmsg' = [DefaultMsg("JobGroupSpec") EXCEPT !.origin = o, !.package = q]
    /\ rkey' = RouteKeyJobGroupSpec(rmsg')
    /\ UNCHANGED nonRouteVars

RouteJobGroupGet ==
    /\ \E g \in IdSamples : rmsg' = [DefaultMsg("JobGroupGet") EXCEPT !.group_id = g]
    /\ rkey' = RouteKeyJobGroupGet(rmsg')
    /\ UNCHANGED nonRouteVars

RouteJobGroupAbort ==
    /\ \E g \in IdSamples : rmsg' = [DefaultMsg("JobGroupAbort") EXCEPT !.group_id = g]
    /\ rkey' = RouteKeyJobGroupAbort(rmsg')
    /\ UNCHANGED nonRouteVars

RouteJobGroupCancel ==
    /\ \E g \in IdSamples : rmsg' = [DefaultMsg("JobGroupCancel") EXCEPT !.group_id = g]
    /\ rkey' = RouteKeyJobGroupCancel(rmsg')
    /\ UNCHANGED nonRouteVars

RouteJobGraphPackageCreate ==
    /\ \E i \in StrSamples : rmsg' = [DefaultMsg("JobGraphPackageCreate") EXCEPT !.ident = i]
    /\ rkey' = RouteKeyJobGraphPackageCreate(rmsg')
    /\ UNCHANGED nonRouteVars

RouteJobGraphPackagePreCreate ==
    /\ \E i \in StrSamples : rmsg' = [DefaultMsg("JobGraphPackagePreCreate") EXCEPT !.ident = i]
    /\ rkey' = RouteKeyJobGraphPackagePreCreate(rmsg')
    /\ UNCHANGED nonRouteVars

RouteJobGroupOriginGet ==
    /\ \E o \in StrSamples : rmsg' = [DefaultMsg("JobGroupOriginGet") EXCEPT !.origin = o]
    /\ rkey' = RouteKeyJobGroupOriginGet(rmsg')
    /\ UNCHANGED nonRouteVars

RouteJobGraphPackageStatsGet ==
    /\ \E o \in StrSamples : rmsg' = [DefaultMsg("JobGraphPackageStatsGet") EXCEPT !.origin = o]
    /\ rkey' = RouteKeyJobGraphPackageStatsGet(rmsg')
    /\ UNCHANGED nonRouteVars

RouteJobGraphPackageReverseDependenciesGet ==
    /\ \E o \in StrSamples, n \in StrSamples :
          rmsg' = [DefaultMsg("JobGraphPackageReverseDependenciesGet")
                      EXCEPT !.origin = o, !.name = n]
    /\ rkey' = RouteKeyJobGraphPackageReverseDependenciesGet(rmsg')
    /\ UNCHANGED nonRouteVars

InitRoute == CodecIdle /\ RouteIdle /\ LogIdle /\ JobIdle /\ PkgIdle /\ ProjIdle

NextRoute ==
    \/ RouteJobSpec
    \/ RouteJobLogGet
    \/ RouteJobGet
    \/ RouteJob
    \/ RouteProjectJobsGet
    \/ RouteJobGroupSpec
    \/ RouteJobGroupGet
    \/ RouteJobGroupAbort
    \/ RouteJobGroupCancel
    \/ RouteJobGraphPackageCreate
    \/ RouteJobGraphPackagePreCreate
    \/ RouteJobGroupOriginGet
    \/ RouteJobGraphPackageStatsGet
    \/ RouteJobGraphPackageReverseDependenciesGet

SpecRoute == InitRoute /\ [][NextRoute]_vars

(***************************************************************************)
(* Properties of the routing resolver.                                     *)
(***************************************************************************)
\* The number a string of decimal digits denotes.
RECURSIVE DecimalValue(_)
DecimalValue(s) ==
    IF s = <<>> THEN 0
    ELSE 10 * DecimalValue(SubSeq(s, 1, Len(s) - 1)) + (s[Len(s)] - 48)

\* s is the decimal rendering of n: digits only, no leading zero, value n.
IsDecimalOf(s, n) ==
    /\ Len(s) >= 1
    /\ \A i \in 1..Len(s) : s[i] \in 48..57
    /\ Len(s) > 1 => s[1] # 48
    /\ DecimalValue(s) = n

\* s is a, a slash, b.
IsSlashJoin(s, a, b) ==
    /\ Len(s) = Len(a) + 1 + Len(b)
    /\ SubSeq(s, 1, Len(a)) = a
    /\ s[Len(a) + 1] = 47
    /\ SubSeq(s, Len(a) + 2, Len(s)) = b

IsInstaId(k, n) == k.tag = "Some" /\ k.key.tag = "InstaId" /\ k.key.id = n
IsString(k, s) == k.tag = "Some" /\ k.key.tag = "String" /\ k.key.str = s
IsDecimalString(k, n) ==
    k.tag = "Some" /\ k.key.tag = "String" /\ IsDecimalOf(k.key.str, n)
IsSlashString(k, a, b) ==
    k.tag = "Some" /\ k.key.tag = "String" /\ IsSlashJoin(k.key.str, a, b)

\* C4: route_key of every routable message is a present key made from the
\* documented key source of the message kind alone.
C4_RouteKey ==
    rmsg # None =>
        /\ rkey.tag = "Some"
        /\ rmsg.kind = "JobSpec" => IsInstaId(rkey, rmsg.owner_id)
        /\ rmsg.kind \in {"JobGet", "JobLogGet", "Job"} => IsInstaId(rkey, rmsg.id)
        /\ rmsg.kind = "ProjectJobsGet" => IsString(rkey, rmsg.name)
        /\ rmsg.kind \in {"JobGroupGet", "JobGroupAbort", "JobGroupCancel"} =>
              IsDecimalString(rkey, rmsg.group_id)
        /\ rmsg.kind \in {"JobGroupOriginGet", "JobGraphPackageStatsGet"} =>
              IsString(rkey, rmsg.origin)
        /\ rmsg.kind = "JobGraphPackageReverseDependenciesGet" =>
              IsSlashString(rkey, rmsg.origin, rmsg.name)
        /\ rmsg.kind \in {"JobGraphPackageCreate", "JobGraphPackagePreCreate"} =>
              IsString(rkey, rmsg.ident)
        /\ rmsg.kind = "JobGroupSpec" => IsSlashString(rkey, rmsg.origin, rmsg.package)

\* C4 witness: a reverse-dependencies request with a non-empty origin and
\* name was routed.
C4_Witness ==
    /\ rmsg # None
    /\ rmsg.kind = "JobGraphPackageReverseDependenciesGet"
    /\ rmsg.origin # <<>> /\ rmsg.name # <<>>
    /\ rkey.tag = "Some"

(***************************************************************************)
(* Log sanitizer: JobLog::strip_ansi.  The regular expression RE is four   *)
(* parts in sequence:                                                      *)
(*   introducer   [\x1b\x9b]                                               *)
(*   prefix       [[()#;?] repeated zero or more times                     *)
(*   parameters   optionally [0-9]{1,4} followed by zero or more           *)
(*                repetitions of ;[0-9]{0,4}                               *)
(*   final byte   [0-9A-PRZcf-nqry=><]                                     *)
(* It is matched as the regex crate matches it: at the leftmost position,  *)
(* and                                                                     *)
(* there the first match in the order of a backtracking search (greedy     *)
(* repetitions give up one iteration at a time).  The '[' after the class  *)
(* opening is a literal member of the class, as the test of the source     *)
(* file requires.                                                          *)
(***************************************************************************)
Introducers == {27, 155}                                 \* [\x1b\x9b]
PrefixBytes == {91, 40, 41, 35, 59, 63}                  \* [[()#;?]
Digits == 48..57                                         \* [0-9]
FinalBytes ==                                            \* [0-9A-PRZcf-nqry=><]
    (48..57) \cup (65..80) \cup {82, 90, 99} \cup (102..110)
        \cup {113, 114, 121, 61, 62, 60}

\* The number of consecutive characters of s from position j on that are
\* in set, at most max.
RECURSIVE RunLen(_, _, _, _)
RunLen(s, j, set, max) ==
    IF max = 0 \/ j > Len(s) \/ s[j] \notin set THEN 0
    ELSE 1 + RunLen(s, j + 1, set, max - 1)

\* Each Try operator returns the position of the last character of the
\* match, or 0 when the rest of the pattern does not match from position j.

\* [0-9A-PRZcf-nqry=><]
TryFinal(s, j) == IF j <= Len(s) /\ s[j] \in FinalBytes THEN j ELSE 0

RECURSIVE TryRep(_, _), TryRepDigits(_, _, _)
\* Repetitions of ;[0-9]{0,4} then the final byte: one more repetition first.
TryRep(s, j) ==
    IF j <= Len(s) /\ s[j] = 59
    THEN LET r == TryRepDigits(s, j, RunLen(s, j + 1, Digits, 4))
         IN  IF r # 0 THEN r ELSE TryFinal(s, j)
    ELSE TryFinal(s, j)

\* ;[0-9]{0,4} at j taking e digits, then fewer.
TryRepDigits(s, j, e) ==
    LET r == TryRep(s, j + 1 + e)
    IN  IF r # 0 THEN r
        ELSE IF e = 0 THEN 0
        ELSE TryRepDigits(s, j, e - 1)

\* [0-9]{1,4} at j taking d digits, then fewer, down to one.
RECURSIVE TryParamDigits(_, _, _)
TryParamDigits(s, j, d) ==
    IF d = 0 THEN 0
    ELSE LET r == TryRep(s, j + d)
         IN  IF r # 0 THEN r ELSE TryParamDigits(s, j, d - 1)

\* The optional parameters then the final byte: with the parameters first.
TryParams(s, j) ==
    LET r == TryParamDigits(s, j, RunLen(s, j, Digits, 4))
    IN  IF r # 0 THEN r ELSE TryFinal(s, j)

\* The prefix at j taking p characters, then fewer.
RECURSIVE TryPrefix(_, _, _)
TryPrefix(s, j, p) ==
    LET r == TryParams(s, j + p)
    IN  IF r # 0 THEN r
        ELSE IF p = 0 THEN 0
        ELSE TryPrefix(s, j, p - 1)

\* The end of the match of RE that starts at position i of s, or 0.
MatchEnd(s, i) ==
    IF s[i] \in Introducers
    THEN TryPrefix(s, i + 1, RunLen(s, i + 1, PrefixBytes, Len(s)))
    ELSE 0

\* RE.replace_all(line, ""): the successive non-overlapping matches, found
\* from left to right, are left out.
RECURSIVE ReplaceAllFrom(_, _)
ReplaceAllFrom(s, i) ==
    IF i > Len(s) THEN <<>>
    ELSE LET e == MatchEnd(s, i)
         IN  IF e # 0 THEN ReplaceAllFrom(s, e + 1)
             ELSE <<s[i]>> \o ReplaceAllFrom(s, i + 1)

\* A faulty variant: only the first match of the line is left out.
ReplaceFirst(s) ==
    IF \E i \in 1..Len(s) : MatchEnd(s, i) # 0
    THEN LET i == CHOOSE i \in 1..Len(s) :
                      MatchEnd(s, i) # 0 /\ \A k \in 1..(i - 1) : MatchEnd(s, k) = 0
         IN  SubSeq(s, 1, i - 1) \o SubSeq(s, MatchEnd(s, i) + 1, Len(s))
    ELSE s

ReplaceAll(s) == ReplaceAllFrom(s, 1)

\* JobLog::strip_ansi: every line of the content is replaced by the result
\* of replace_all, in order; no other field is written.
StripAnsi(l) ==
    [l EXCEPT !.content = [i \in 1..Len(l.content) |-> ReplaceAll(l.content[i])]]

(***************************************************************************)
(* impl Serialize for JobLog.  A projection is the name and the field      *)
(* count given to serialize_struct, and the fields serialized, in order.   *)
(***************************************************************************)
Field(n, v) == [name |-> n, value |-> v]
Struct(n, len, fields) == [tag |-> "Struct", name |-> n, len |-> len, fields |-> fields]

\* A faulty variant: the projection sanitizes the content it emits.
SerializeJobLogSanitized(l) ==
    Struct("JobLog", 4,
           <<Field("start", l.start),
             Field("stop", l.stop),
             Field("content", StripAnsi(l).content),
             Field("is_complete", l.is_complete)>>)

SerializeJobLog(l) ==
    Struct("JobLog", 4,
           <<Field("start", l.start),
             Field("stop", l.stop),
             Field("content", l.content),
             Field("is_complete", l.is_complete)>>)

HasField(w, n) == \E i \in 1..Len(w.fields) : w.fields[i].name = n
FieldValue(w, n) == w.fields[CHOOSE i \in 1..Len(w.fields) : w.fields[i].name = n].value

(***************************************************************************)
(* The log chunks of the model: every single line of up to MaxLineLen      *)
(* characters of LogAlphabet, and every chunk of up to MaxLines sample     *)
(* lines (two lines of tests::test_ansi_stripping among them).             *)
(***************************************************************************)
\* ESC, CSI, '[', ';', '1', 'm' and the non-ASCII text character U+00BB.
LogAlphabet == {27, 155, 91, 59, 49, 109, 187}

RECURSIVE LinesUpTo(_)
LinesUpTo(n) ==
    IF n = 0 THEN {<<>>}
    ELSE LET S == LinesUpTo(n - 1)
         IN  S \cup {Append(l, c) : l \in S, c \in LogAlphabet}

TestLine1 ==
    <<27, 91, 49, 59, 51, 51, 109, 187, 32, 73, 109, 112, 111, 114, 116, 105, 110, 103,
      32, 111, 114, 105, 103, 105, 110, 32, 107, 101, 121, 32, 102, 114, 111, 109, 32,
      115, 116, 97, 110, 100, 97, 114, 100, 32, 108, 111, 103, 27, 91, 48, 109>>

TestLine4 ==
    <<27, 91, 49, 59, 51, 50, 109, 8595, 32, 68, 111, 119, 110, 108, 111, 97, 100, 105,
      110, 103, 27, 91, 48, 109, 32, 99, 111, 114, 101, 47, 104, 97, 98, 45, 98, 97,
      99, 107, 108, 105, 110, 101, 47, 48, 46, 50, 51, 46, 48, 47, 50, 48, 49, 55, 48,
      53, 49, 49, 50, 50, 48, 48, 48, 56>>

TestExpected1 ==
    <<187, 32, 73, 109, 112, 111, 114, 116, 105, 110, 103, 32, 111, 114, 105, 103, 105,
      110, 32, 107, 101, 121, 32, 102, 114, 111, 109, 32, 115, 116, 97, 110, 100, 97,
      114, 100, 32, 108, 111, 103>>

TestExpected4 ==
    <<8595, 32, 68, 111, 119, 110, 108, 111, 97, 100, 105, 110, 103, 32, 99, 111, 114,
      101, 47, 104, 97, 98, 45, 98, 97, 99, 107, 108, 105, 110, 101, 47, 48, 46, 50,
      51, 46, 48, 47, 50, 48, 49, 55, 48, 53, 49, 49, 50, 50, 48, 48, 48, 56>>

SampleLines == {TestLine1, TestLine4, TestExpected1, <<>>, <<27, 27, 109, 109>>}

RECURSIVE ChunksUpTo(_)
ChunksUpTo(n) ==
    IF n = 0 THEN {<<>>}
    ELSE LET S == ChunksUpTo(n - 1)
         IN  S \cup {Append(c, l) : c \in S, l \in SampleLines}

JobLogOf(start, content, complete) ==
    [start |-> start, stop |-> start + Len(content), content |-> content,
     is_complete |-> complete]

InitialLogs ==
    {JobLogOf(0, <<l>>, FALSE) : l \in LinesUpTo(MaxLineLen)}
        \cup {JobLogOf(st, c, k) : st \in {0, 3}, c \in ChunksUpTo(MaxLines), k \in BOOLEAN}

LogInit ==
    /\ log \in InitialLogs
    /\ prev = None /\ nstrip = 0 /\ wire = None

\* log.strip_ansi()
DoStripAnsi ==
    /\ nstrip < MaxStrips
    /\ prev' = log
    /\ log' = StripAnsi(log)
    /\ nstrip' = nstrip + 1
    /\ wire' = None
    /\ UNCHANGED nonLogVars

\* log.serialize(..)
DoSerializeJobLog ==
    /\ wire' = SerializeJobLog(log)
    /\ UNCHANGED <<log, prev, nstrip, nonLogVars>>

InitLog == CodecIdle /\ RouteIdle /\ LogInit /\ JobIdle /\ PkgIdle /\ ProjIdle

NextLog ==
    \/ DoStripAnsi
    \/ DoSerializeJobLog

SpecLog == InitLog /\ [][NextLog]_vars

(***************************************************************************)
(* Properties of the log sanitizer and of the JobLog projection.           *)
(***************************************************************************)
\* r is a parameter string: empty, or digits and ';' starting with a digit
\* and with no more than four digits in a row.
IsParameters(r) ==
    \/ r = <<>>
    \/ /\ r[1] \in Digits
       /\ \A i \in 1..Len(r) : r[i] \in Digits \cup {59}
       /\ \A i \in 1..(Len(r) - 4) : \E k \in 0..4 : r[i + k] = 59

\* t is a control sequence: an introducer, prefix bytes, parameters and one
\* final byte.
IsControlSequence(t) ==
    /\ Len(t) >= 2
    /\ t[1] \in Introducers
    /\ t[Len(t)] \in FinalBytes
    /\ \E k \in 0..(Len(t) - 2) :
          /\ \A i \in 2..(k + 1) : t[i] \in PrefixBytes
          /\ IsParameters(SubSeq(t, k + 2, Len(t) - 1))

\* Some substring of the line is a control sequence.
ContainsControlSequence(line) ==
    \E a \in 1..Len(line) : \E b \in (a + 1)..Len(line) :
        IsControlSequence(SubSeq(line, a, b))

\* out is inp with some disjoint control sequences left out.
RECURSIVE IsRemovalOf(_, _)
IsRemovalOf(out, inp) ==
    IF inp = <<>> THEN out = <<>>
    ELSE \/ /\ out # <<>>
            /\ out[1] = inp[1]
            /\ IsRemovalOf(Tail(out), Tail(inp))
         \/ \E b \in 2..Len(inp) :
               /\ IsControlSequence(SubSeq(inp, 1, b))
               /\ IsRemovalOf(out, SubSeq(inp, b + 1, Len(inp)))

\* C5 as claimed: the content a JobLog projection emits holds no control
\* sequence, whatever was or was not done to the log before.
C5_ProjectionSanitized ==
    wire # None =>
        \A i \in 1..Len(FieldValue(wire, "content")) :
            ~ContainsControlSequence(FieldValue(wire, "content")[i])

\* C5 as amended: the projection emits the stored content as it is, line by
\* line; a line of the projection holds a control sequence exactly when the
\* stored line does.
C5_ProjectionVerbatim ==
    wire # None =>
        /\ HasField(wire, "content")
        /\ FieldValue(wire, "content") = log.content
        /\ \A i \in 1..Len(log.content) :
              ContainsControlSequence(FieldValue(wire, "content")[i])
                  <=> ContainsControlSequence(log.content[i])

\* C5 witness: a log never passed through strip_ansi, holding a control
\* sequence, was projected.
C5_Witness ==
    /\ wire # None /\ nstrip = 0
    /\ \E i \in 1..Len(log.content) : ContainsControlSequence(log.content[i])

\* C6: after a call of strip_ansi no line of the content holds a substring
\* that is a control sequence.
C6_StrippedClean ==
    nstrip >= 1 =>
        \A i \in 1..Len(log.content) : ~ContainsControlSequence(log.content[i])

\* C7: strip_ansi keeps the number and the order of the lines, each output
\* line being the input line with control sequences left out (the lines of
\* the source's test giving the lines the test expects), returns a line with
\* no control sequence unchanged and an empty content as an empty content,
\* and leaves start, stop and is_complete as they were.
C7_StripKeepsLines ==
    prev # None =>
        /\ Len(log.content) = Len(prev.content)
        /\ \A i \in 1..Len(prev.content) :
              /\ IsRemovalOf(log.content[i], prev.content[i])
              /\ ContainsControlSequence(prev.content[i])
                    <=> Len(log.content[i]) < Len(prev.content[i])
              /\ ~ContainsControlSequence(prev.content[i])
                    => log.content[i] = prev.content[i]
              /\ prev.content[i] = TestLine1 => log.content[i] = TestExpected1
              /\ prev.content[i] = TestLine4 => log.content[i] = TestExpected4
        /\ prev.content = <<>> => log.content = <<>>
        /\ log.start = prev.start
        /\ log.stop = prev.stop
        /\ log.is_complete = prev.is_complete

\* C7 witness: a complete chunk of two lines, the first with control
\* sequences and the second without, went through strip_ansi.
C7_Witness ==
    /\ prev # None /\ nstrip = 1
    /\ Len(prev.content) = 2
    /\ prev.is_complete /\ prev.start = 3
    /\ prev.content[1] = TestLine1
    /\ prev.content[2] = TestExpected1
    /\ log.content[1] # prev.content[1]

\* The matcher finds a match in a line exactly when the line holds a
\* control sequence.
MatcherAgreesWithPattern ==
    log # None =>
        \A i \in 1..Len(log.content) :
            ContainsControlSequence(log.content[i])
                <=> \E a \in 1..Len(log.content[i]) : MatchEnd(log.content[i], a) # 0

(***************************************************************************)
(* Entity model: Job and JobSpec.  An optional protobuf field is a record  *)
(* of whether it is set and its value; a getter of an unset field returns  *)
(* the default of its type.                                                *)
(***************************************************************************)
Unset(default) == [set |-> FALSE, val |-> default]
Set(v) == [set |-> TRUE, val |-> v]

\* Project::new() and OriginPackageIdent::new(): every field at its default.
DefaultProject == [origin_name |-> "", package_name |-> ""]
DefaultIdent == [origin |-> "", name |-> "", version |-> "", release |-> ""]

\* Job::new()
JobNew ==
    [id |-> Unset(0), owner_id |-> Unset(0), state |-> Unset("Pending"),
     project |-> Unset(DefaultProject), channel |-> Unset(""),
     package_ident |-> Unset(DefaultIdent), build_started_at |-> Unset(""),
     build_finished_at |-> Unset(""), error |-> Unset(""), created_at |-> Unset("")]

\* A faulty variant: the channel is copied whether or not the spec has one.
JobSpecIntoJobChannelAlways(spec) ==
    [JobNew EXCEPT !.owner_id = Set(spec.owner_id.val),
                   !.state = Set(JobStateDefault),
                   !.project = Set(spec.project.val),
                   !.channel = Set(spec.channel.val)]

\* impl Into<Job> for JobSpec
JobSpecIntoJob(spec) ==
    LET job1 == [JobNew EXCEPT !.owner_id = Set(spec.owner_id.val),
                               !.state = Set(JobStateDefault),
                               !.project = Set(spec.project.val)]
    IN  IF spec.channel.set
        THEN [job1 EXCEPT !.channel = Set(spec.channel.val)]
        ELSE job1

\* impl Persistable for Job
JobPrimaryKey(j) == j.id.val
JobSetPrimaryKey(j, value) == [j EXCEPT !.id = Set(value)]

\* The fields serialized under a condition: all of them, or none.
When(cond, fields) == IF cond THEN fields ELSE <<>>

\* A faulty variant: origin and name are read from the package identifier.
SerializeJobFromIdent(j) ==
    Struct("job", 10,
           <<Field("id", U64ToString(j.id.val)),
             Field("created_at", j.created_at.val),
             Field("origin", j.package_ident.val.origin),
             Field("name", j.package_ident.val.name)>>
           \o When(j.package_ident.set,
                   <<Field("version", j.package_ident.val.version),
                     Field("release", j.package_ident.val.release)>>)
           \o When(j.build_started_at.set,
                   <<Field("build_started_at", j.build_started_at.val)>>)
           \o When(j.build_finished_at.set,
                   <<Field("build_finished_at", j.build_finished_at.val)>>)
           \o <<Field("state", SerializeJobState(j.state.val))>>
           \o When(j.error.set, <<Field("error", j.error.val)>>)
           \o When(j.channel.set, <<Field("channel", j.channel.val)>>))

\* impl Serialize for Job
SerializeJob(j) ==
    Struct("job", 10,
           <<Field("id", U64ToString(j.id.val)),
             Field("created_at", j.created_at.val),
             Field("origin", j.project.val.origin_name),
             Field("name", j.project.val.package_name)>>
           \o When(j.package_ident.set,
                   <<Field("version", j.package_ident.val.version),
                     Field("release", j.package_ident.val.release)>>)
           \o When(j.build_started_at.set,
                   <<Field("build_started_at", j.build_started_at.val)>>)
           \o When(j.build_finished_at.set,
                   <<Field("build_finished_at", j.build_finished_at.val)>>)
           \o <<Field("state", SerializeJobState(j.state.val))>>
           \o When(j.error.set, <<Field("error", j.error.val)>>)
           \o When(j.channel.set, <<Field("channel", j.channel.val)>>))

\* The job specs and the jobs of the model.
ProjectSamples ==
    {Unset(DefaultProject),
     Set([origin_name |-> "core", package_name |-> "hab"]),
     Set([origin_name |-> "acme", package_name |-> ""])}
ChannelSamples == {Unset(""), Set(""), Set("unstable")}

JobSpecSamples ==
    [owner_id : {Unset(0), Set(7), Set(42)},
     project : ProjectSamples,
     channel : ChannelSamples]

JobSamples ==
    [id : {Unset(0), Set(42)},
     owner_id : {Set(7)},
     state : {Unset("Pending"), Set("Complete"), Set("Failed")},
     project : {Unset(DefaultProject),
                Set([origin_name |-> "core", package_name |-> "hab"])},
     channel : {Unset(""), Set("unstable")},
     package_ident : {Unset(DefaultIdent),
                      Set([origin |-> "other", name |-> "pkg",
                           version |-> "0.23.0", release |-> "20170511220008"])},
     build_started_at : {Unset(""), Set("2017-05-11T22:00:08Z")},
     build_finished_at : {Unset(""), Set("2017-05-11T22:10:08Z")},
     error : {Unset(""), Set(""), Set("build failed")},
     created_at : {Set("2017-05-11T21:59:00Z")}]

JobInit ==
    /\ \/ jspec \in JobSpecSamples /\ job = None
       \/ jspec = None /\ job \in JobSamples
    /\ jwire = None

\* let job: Job = spec.into(); jspec keeps the spec as it was given.
DoJobSpecIntoJob ==
    /\ jspec # None /\ job = None
    /\ job' = JobSpecIntoJob(jspec)
    /\ UNCHANGED <<jspec, jwire, nonJobVars>>

\* job.serialize(..)
DoSerializeJob ==
    /\ job # None
    /\ jwire' = SerializeJob(job)
    /\ UNCHANGED <<jspec, job, nonJobVars>>

InitJob == CodecIdle /\ RouteIdle /\ LogIdle /\ JobInit /\ PkgIdle /\ ProjIdle

NextJob ==
    \/ DoJobSpecIntoJob
    \/ DoSerializeJob

SpecJob == InitJob /\ [][NextJob]_vars

(***************************************************************************)
(* Properties of the Job projection and of the JobSpec conversion.         *)
(***************************************************************************)
FieldNames(w) == {w.fields[i].name : i \in 1..Len(w.fields)}

\* C8: the projection of a Job emits version and release exactly when a
\* package identifier is set, build_started_at, build_finished_at, error
\* (with the error text) and channel exactly when each is set, and always
\* id, created_at, origin, name and state, origin and name being those of
\* the project; nothing else is emitted and no field is emitted twice.
C8_JobProjection ==
    jwire # None =>
        /\ ("version" \in FieldNames(jwire)) <=> job.package_ident.set
        /\ ("release" \in FieldNames(jwire)) <=> job.package_ident.set
        /\ ("build_started_at" \in FieldNames(jwire)) <=> job.build_started_at.set
        /\ ("build_finished_at" \in FieldNames(jwire)) <=> job.build_finished_at.set
        /\ ("error" \in FieldNames(jwire)) <=> job.error.set
        /\ ("channel" \in FieldNames(jwire)) <=> job.channel.set
        /\ {"id", "created_at", "origin", "name", "state"} \subseteq FieldNames(jwire)
        /\ FieldNames(jwire) \subseteq
              {"id", "created_at", "origin", "name", "state", "version", "release",
               "build_started_at", "build_finished_at", "error", "channel"}
        /\ Cardinality(FieldNames(jwire)) = Len(jwire.fields)
        /\ job.error.set => FieldValue(jwire, "error") = job.error.val
        /\ job.channel.set => FieldValue(jwire, "channel") = job.channel.val
        /\ job.package_ident.set =>
              /\ FieldValue(jwire, "version") = job.package_ident.val.version
              /\ FieldValue(jwire, "release") = job.package_ident.val.release
        /\ FieldValue(jwire, "origin") = job.project.val.origin_name
        /\ FieldValue(jwire, "name") = job.project.val.package_name
        /\ IsDecimalOf(FieldValue(jwire, "id"), job.id.val)
        /\ FieldValue(jwire, "state") = Str(DisplayJobState(job.state.val))

\* C8 witness: a job with a package identifier of another origin than its
\* project, with an error and without a channel, was projected.
C8_Witness ==
    /\ jwire # None
    /\ job.package_ident.set /\ job.project.set
    /\ job.package_ident.val.origin # job.project.val.origin_name
    /\ job.error.set /\ job.error.val = "build failed"
    /\ ~job.channel.set /\ ~job.build_finished_at.set

\* C9: the Job made from a JobSpec has the owner id and the project of the
\* spec, the default state Pending, the channel of the spec exactly when the
\* spec had one, and no package identifier, build timestamp or error.
C9_JobFromSpec ==
    (jspec # None /\ job # None) =>
        /\ job.owner_id.val = jspec.owner_id.val
        /\ job.project.val = jspec.project.val
        /\ job.state = Set("Pending")
        /\ job.channel.set <=> jspec.channel.set
        /\ jspec.channel.set => job.channel.val = jspec.channel.val
        /\ ~job.package_ident.set
        /\ ~job.build_started_at.set
        /\ ~job.build_finished_at.set
        /\ ~job.error.set

\* C9 witness: a spec with an owner and a project and without a channel was
\* converted.
C9_Witness ==
    /\ jspec # None /\ job # None
    /\ jspec.owner_id.set /\ jspec.project.set
    /\ ~jspec.channel.set

(***************************************************************************)
(* Entity model: the graph package conversions.                            *)
(***************************************************************************)
\* impl fmt::Display for OriginPackageIdent, the canonical formatter:
\* origin/name, then /version when there is one, then /release when there
\* are both.
DisplayOriginPackageIdent(id) ==
    IF id.version # <<>> /\ id.release # <<>>
    THEN FormatSlash(FormatSlash(FormatSlash(id.origin, id.name), id.version), id.release)
    ELSE IF id.version # <<>>
    THEN FormatSlash(FormatSlash(id.origin, id.name), id.version)
    ELSE FormatSlash(id.origin, id.name)

\* format!("{}", s) and s.to_string() of a string: its characters, in order.
DisplayStr(s) == [i \in 1..Len(s) |-> s[i]]

\* impl From<OriginPackage> for JobGraphPackage
JobGraphPackageFromOriginPackage(value) ==
    [ident |-> DisplayOriginPackageIdent(value.ident),
     target |-> DisplayStr(value.target),
     deps |-> [i \in 1..Len(value.deps) |-> DisplayOriginPackageIdent(value.deps[i])]]

\* A faulty variant: the dependencies are not carried over.
JobGraphPackageCreateWithoutDeps(value) ==
    [ident |-> DisplayStr(value.ident),
     target |-> DisplayStr(value.target),
     deps |-> <<>>]

\* impl From<JobGraphPackage> for JobGraphPackageCreate
JobGraphPackageCreateFromJobGraphPackage(value) ==
    [ident |-> DisplayStr(value.ident),
     target |-> DisplayStr(value.target),
     deps |-> [i \in 1..Len(value.deps) |-> DisplayStr(value.deps[i])]]

\* The origin packages of the model.
IdentSamples ==
    [origin : {<<99, 111, 114, 101>>},                     \* "core"
     name : {<<104, 97, 98>>, <<103, 99, 99>>},             \* "hab", "gcc"
     version : {<<>>, <<49, 46, 48>>},                      \* "", "1.0"
     release : {<<>>, <<50, 48, 49, 55>>}]                  \* "", "2017"

TargetSamples == {<<>>, <<120, 56, 54, 95, 54, 52, 45, 108, 105, 110, 117, 120>>}  \* "x86_64-linux"

RECURSIVE DepsUpTo(_)
DepsUpTo(n) ==
    IF n = 0 THEN {<<>>}
    ELSE LET S == DepsUpTo(n - 1)
         IN  S \cup {Append(d, i) : d \in S, i \in IdentSamples}

PkgInit ==
    /\ opkg \in [ident : IdentSamples, target : TargetSamples, deps : DepsUpTo(MaxDeps)]
    /\ gpkg = None /\ cpkg = None

\* let package: JobGraphPackage = origin_package.into()
DoFromOriginPackage ==
    /\ gpkg = None
    /\ gpkg' = JobGraphPackageFromOriginPackage(opkg)
    /\ UNCHANGED <<opkg, cpkg, nonPkgVars>>

\* let create: JobGraphPackageCreate = package.into()
DoFromJobGraphPackage ==
    /\ gpkg # None /\ cpkg = None
    /\ cpkg' = JobGraphPackageCreateFromJobGraphPackage(gpkg)
    /\ UNCHANGED <<opkg, gpkg, nonPkgVars>>

InitPkg == CodecIdle /\ RouteIdle /\ LogIdle /\ JobIdle /\ PkgInit /\ ProjIdle

NextPkg ==
    \/ DoFromOriginPackage
    \/ DoFromJobGraphPackage

SpecPkg == InitPkg /\ [][NextPkg]_vars

(***************************************************************************)
(* Properties of the graph package conversions.                            *)
(***************************************************************************)
\* C10: OriginPackage -> JobGraphPackage -> JobGraphPackageCreate yields the
\* ident, the target and the dependencies (same count, same order) of the
\* source rendered once through the canonical formatter, and the second hop
\* changes none of the three fields of the first.
C10_TwoHops ==
    cpkg # None =>
        /\ cpkg.ident = DisplayOriginPackageIdent(opkg.ident)
        /\ cpkg.target = opkg.target
        /\ Len(cpkg.deps) = Len(opkg.deps)
        /\ \A i \in 1..Len(opkg.deps) :
              cpkg.deps[i] = DisplayOriginPackageIdent(opkg.deps[i])
        /\ cpkg.ident = gpkg.ident
        /\ cpkg.target = gpkg.target
        /\ cpkg.deps = gpkg.deps

\* C10 witness: a package with a fully qualified ident, a target and two
\* different dependencies went through both hops.
C10_Witness ==
    /\ cpkg # None
    /\ opkg.ident.version # <<>> /\ opkg.ident.release # <<>>
    /\ opkg.target # <<>>
    /\ Len(opkg.deps) = 2 /\ opkg.deps[1] # opkg.deps[2]

(***************************************************************************)
(* API projection: the remaining impls of Serialize, and every projected   *)
(* entity with the field count its impl gives to serialize_struct.         *)
(***************************************************************************)
\* impl Serialize for ProjectJobsGetResponse; each job of the sequence is
\* serialized by Serialize for Job.
SerializeProjectJobsGetResponse(r) ==
    Struct("project_jobs_get_response", 1,
           <<Field("jobs", [i \in 1..Len(r.jobs) |-> SerializeJob(r.jobs[i])])>>)

\* impl Serialize for JobGroupProject
SerializeJobGroupProject(p) ==
    Struct("job_group_project", 4,
           <<Field("name", p.name),
             Field("ident", p.ident),
             Field("state", SerializeJobGroupProjectState(p.state)),
             Field("job_id", U64ToString(p.job_id))>>)

\* impl Serialize for JobGroup
SerializeJobGroup(g) ==
    Struct("job_group", 5,
           <<Field("id", U64ToString(g.id)),
             Field("state", SerializeJobGroupState(g.state)),
             Field("projects",
                   [i \in 1..Len(g.projects) |-> SerializeJobGroupProject(g.projects[i])]),
             Field("created_at", g.created_at),
             Field("project_name", g.project_name)>>)

\* impl Serialize for JobGraphPackageReverseDependencies
SerializeJobGraphPackageReverseDependencies(r) ==
    Struct("job_graph_package_reverse_dependencies", 3,
           <<Field("origin", r.origin),
             Field("name", r.name),
             Field("rdeps", r.rdeps)>>)

\* impl Serialize for JobGraphPackageStats
SerializeJobGraphPackageStats(t) ==
    Struct("job_graph_package_stats", 2,
           <<Field("plans", t.plans),
             Field("builds", t.builds),
             Field("unique_packages", t.unique_packages)>>)

\* The entities of the model.
JobGroupProjectSamples ==
    [name : {"hab"}, ident : {"", "core/hab/0.23.0/20170511220008"},
     state : {"NotStarted", "Success", "Canceled"}, job_id : {0, 42}]

JobGroupSamples ==
    [id : {0, 1005}, state : {"GroupPending", "GroupDispatching", "GroupCanceled"},
     projects : {<<>>} \cup {<<p>> : p \in JobGroupProjectSamples},
     created_at : {"2017-05-11T21:59:00Z"}, project_name : {"core/hab"}]

ReverseDependenciesSamples ==
    [origin : {"core"}, name : {"hab", "gcc"},
     rdeps : {<<>>, <<"core/hab-sup">>, <<"core/hab-sup", "core/hab-launcher">>}]

StatsSamples == [plans : {0, 9}, builds : {0, 10}, unique_packages : {0, 42}]

ResponseSamples ==
    [jobs : {<<>>} \cup {<<j>> : j \in {x \in JobSamples : x.id.set /\ x.error.val # ""}}]

Entity(kind, val) == [kind |-> kind, val |-> val]

\* job.serialize(..)
ProjectJob ==
    /\ \E j \in JobSamples : pent' = Entity("Job", j) /\ pwire' = SerializeJob(j)
    /\ UNCHANGED nonProjVars

\* response.serialize(..)
ProjectProjectJobsGetResponse ==
    /\ \E r \in ResponseSamples :
          /\ pent' = Entity("ProjectJobsGetResponse", r)
          /\ pwire' = SerializeProjectJobsGetResponse(r)
    /\ UNCHANGED nonProjVars

\* log.serialize(..)
ProjectJobLog ==
    /\ \E st \in {0, 3}, c \in ChunksUpTo(MaxLines), k \in BOOLEAN :
          /\ pent' = Entity("JobLog", JobLogOf(st, c, k))
          /\ pwire' = SerializeJobLog(JobLogOf(st, c, k))
    /\ UNCHANGED nonProjVars

\* project.serialize(..)
ProjectJobGroupProject ==
    /\ \E p \in JobGroupProjectSamples :
          /\ pent' = Entity("JobGroupProject", p)
          /\ pwire' = SerializeJobGroupProject(p)
    /\ UNCHANGED nonProjVars

\* group.serialize(..)
ProjectJobGroup ==
    /\ \E g \in JobGroupSamples :
          pent' = Entity("JobGroup", g) /\ pwire' = SerializeJobGroup(g)
    /\ UNCHANGED nonProjVars

\* rdeps.serialize(..)
ProjectJobGraphPackageReverseDependencies ==
    /\ \E r \in ReverseDependenciesSamples :
          /\ pent' = Entity("JobGraphPackageReverseDependencies", r)
          /\ pwire' = SerializeJobGraphPackageReverseDependencies(r)
    /\ UNCHANGED nonProjVars

\* stats.serialize(..)
ProjectJobGraphPackageStats ==
    /\ \E t \in StatsSamples :
          /\ pent' = Entity("JobGraphPackageStats", t)
          /\ pwire' = SerializeJobGraphPackageStats(t)
    /\ UNCHANGED nonProjVars

InitProj == CodecIdle /\ RouteIdle /\ LogIdle /\ JobIdle /\ PkgIdle /\ ProjIdle

NextProj ==
    \/ ProjectJob
    \/ ProjectProjectJobsGetResponse
    \/ ProjectJobLog
    \/ ProjectJobGroupProject
    \/ ProjectJobGroup
    \/ ProjectJobGraphPackageReverseDependencies
    \/ ProjectJobGraphPackageStats

SpecProj == InitProj /\ [][NextProj]_vars

(***************************************************************************)
(* Properties of the projections.                                          *)
(***************************************************************************)
\* C11: for every projected entity and every combination of set and unset
\* optional fields, the number of fields the projection emits is at most the
\* field count it declares when it opens the struct.
C11_FieldCountWithinDeclared ==
    pwire # None => Len(pwire.fields) <= pwire.len

\* The entities whose projection emits more fields than it declares: every
\* JobGraphPackageStats, and the Job with its package identifier, both build
\* timestamps, its error and its channel set; no other.
C11_Overruns ==
    pwire # None =>
        (Len(pwire.fields) > pwire.len <=>
            \/ pent.kind = "JobGraphPackageStats"
            \/ /\ pent.kind = "Job"
               /\ pent.val.package_ident.set
               /\ pent.val.build_started_at.set
               /\ pent.val.build_finished_at.set
               /\ pent.val.error.set
               /\ pent.val.channel.set)

====
